---- MODULE Spec2Model ----
(***************************************************************************)
(* Model of the resumable crawler of icso.py: the key/value normalisation   *)
(* of one detail document (clean_key, clean_value_text, clean_value_list,   *)
(* clean_activity_list, the row loop of get_parse_org) and the driving loop *)
(* of __main__ over the two TinyDB collections org_ids and orgs_full.       *)
(*                                                                         *)
(* Strings are sequences of one-character strings, so that the string       *)
(* operations of the source (strip, lower, replace, re.sub) are computed    *)
(* character by character.                                                  *)
(***************************************************************************)
EXTENDS Integers, Sequences, FiniteSets, TLC

(***************************************************************************)
(* Characters and the string primitives of Python used by the source.      *)
(***************************************************************************)
UpperChars == <<"A", "B", "C", "D", "E", "F", "G", "H", "I", "J", "K", "L", "M",
                "N", "O", "P", "Q", "R", "S", "T", "U", "V", "W", "X", "Y", "Z">>

LowerChars == <<"a", "b", "c", "d", "e", "f", "g", "h", "i", "j", "k", "l", "m",
                "n", "o", "p", "q", "r", "s", "t", "u", "v", "w", "x", "y", "z">>

DigitChars == {"0", "1", "2", "3", "4", "5", "6", "7", "8", "9"}

\* The characters str.strip() removes from both ends.
Whitespace == {" ", "\t", "\n"}

\* The characters the pattern \W leaves in place: letters, digits and "_".
WordChars == {UpperChars[k] : k \in DOMAIN UpperChars}
                 \cup {LowerChars[k] : k \in DOMAIN LowerChars}
                 \cup DigitChars \cup {"_"}

\* str.lower() on one character.
LowerChar(c) ==
    IF \E k \in DOMAIN UpperChars : UpperChars[k] = c
    THEN LowerChars[CHOOSE k \in DOMAIN UpperChars : UpperChars[k] = c]
    ELSE c

\* str.lower()
Lower(s) == [k \in DOMAIN s |-> LowerChar(s[k])]

RECURSIVE LStrip(_)
LStrip(s) ==
    IF s # <<>> /\ s[1] \in Whitespace THEN LStrip(Tail(s)) ELSE s

RECURSIVE RStrip(_)
RStrip(s) ==
    IF s # <<>> /\ s[Len(s)] \in Whitespace
    THEN RStrip(SubSeq(s, 1, Len(s) - 1))
    ELSE s

\* str.strip()
Strip(s) == RStrip(LStrip(s))

\* str.replace(a, b) for a one-character a and a one-character b
ReplaceChar(s, a, b) == [k \in DOMAIN s |-> IF s[k] = a THEN b ELSE s[k]]

\* str.replace(a, '') for a one-character a
RemoveChar(s, a) == SelectSeq(s, LAMBDA c : c # a)

\* str.replace(a + a, a): one pass from the left over non-overlapping
\* occurrences of the doubled character, as Python's str.replace does.
RECURSIVE ReplaceDoubled(_, _)
ReplaceDoubled(s, a) ==
    IF Len(s) < 2 THEN s
    ELSE IF s[1] = a /\ s[2] = a
         THEN <<a>> \o ReplaceDoubled(SubSeq(s, 3, Len(s)), a)
         ELSE <<s[1]>> \o ReplaceDoubled(Tail(s), a)

\* re.sub(r"\W", "", s)
RemoveNonWord(s) == SelectSeq(s, LAMBDA c : c \in WordChars)

EndsWith(s, suffix) ==
    /\ Len(s) >= Len(suffix)
    /\ SubSeq(s, Len(s) - Len(suffix) + 1, Len(s)) = suffix

\* re.sub("_$|_yyyy$", "", s): both alternatives are anchored at the end of
\* the string, so at most one match exists and it is removed.
StripTrailing(s) ==
    IF EndsWith(s, <<"_", "y", "y", "y", "y">>) THEN SubSeq(s, 1, Len(s) - 5)
    ELSE IF EndsWith(s, <<"_">>) THEN SubSeq(s, 1, Len(s) - 1)
    ELSE s

(***************************************************************************)
(* Groups of special fields.                                               *)
(***************************************************************************)
K_org_id == <<"o", "r", "g", "_", "i", "d">>

K_headquarters_address ==
    <<"h", "e", "a", "d", "q", "u", "a", "r", "t", "e", "r", "s", "_",
      "a", "d", "d", "r", "e", "s", "s">>

K_preferred_mailing_address ==
    <<"p", "r", "e", "f", "e", "r", "r", "e", "d", "_", "m", "a", "i", "l", "i",
      "n", "g", "_", "a", "d", "d", "r", "e", "s", "s">>

K_address == <<"a", "d", "d", "r", "e", "s", "s">>

K_phone == <<"p", "h", "o", "n", "e">>

K_fax == <<"f", "a", "x">>

K_email == <<"e", "m", "a", "i", "l">>

K_areas ==
    <<"a", "r", "e", "a", "s", "_", "o", "f", "_", "e", "x", "p", "e", "r", "t",
      "i", "s", "e", "_", "f", "i", "e", "l", "d", "s", "_", "o", "f", "_",
      "a", "c", "t", "i", "v", "i", "t", "y">>

faux_contact_headers == {K_headquarters_address, K_preferred_mailing_address}

contact_keys == {K_address, K_phone, K_fax, K_email}

list_only_fields ==
    { <<"l", "a", "n", "g", "u", "a", "g", "e", "s">>,
      <<"m", "i", "l", "l", "e", "n", "n", "i", "u", "m", "_", "d", "e", "v", "e",
        "l", "o", "p", "m", "e", "n", "t", "_", "g", "o", "a", "l", "s">>,
      <<"f", "u", "n", "d", "i", "n", "g", "_", "s", "t", "r", "u", "c", "t", "u",
        "r", "e">>,
      <<"c", "o", "u", "n", "t", "r", "y", "_", "g", "e", "o", "g", "r", "a", "p",
        "h", "i", "c", "a", "l", "_", "a", "r", "e", "a", "_", "o", "f", "_",
        "a", "c", "t", "i", "v", "i", "t", "y">> }

\* The two contact types of get_parse_org, and the None clean_activity_list passes.
HQ == <<"h", "q">>

PREFERRED == <<"p", "r", "e", "f", "e", "r", "r", "e", "d">>

None == <<"None">>

\* The label that switches the contact type.
L_Preferred ==
    <<"P", "r", "e", "f", "e", "r", "r", "e", "d", " ", "m", "a", "i", "l", "i",
      "n", "g", " ", "a", "d", "d", "r", "e", "s", "s">>

(***************************************************************************)
(* clean_key                                                                *)
(***************************************************************************)
\* Line 66: lowercase, strip, spaces to "_", drop everything but word characters.
KeyStep12(cell) == RemoveNonWord(ReplaceChar(Lower(Strip(cell)), " ", "_"))

\* A faulty variant of KeyStep34: the trailing suffix is removed before the
\* doubled "_" are fixed.
KeyStep34_StripFirst(cell) == ReplaceDoubled(StripTrailing(KeyStep12(cell)), "_")

\* Line 69: fix double "__", then remove a trailing "_" or "_yyyy".
KeyStep34(cell) == StripTrailing(ReplaceDoubled(KeyStep12(cell), "_"))

\* Line 72: does the key relate to contact information?
IsContactKey(key) == key \in contact_keys

\* Line 73 raises TypeError when the contact type is None (None + '_').
clean_key_raises(cell, contact_type) ==
    IsContactKey(KeyStep34(cell)) /\ contact_type = None

clean_key(cell, contact_type) ==
    IF IsContactKey(KeyStep34(cell))
    THEN contact_type \o <<"_">> \o KeyStep34(cell)
    ELSE KeyStep34(cell)

(***************************************************************************)
(* Value cells.  A cell is the sequence of its elements in document order, *)
(* each [tag, text] with tag "b", "li" or "text" (any other content).       *)
(***************************************************************************)
\* cell.text: the concatenated text of the cell
RECURSIVE CellText(_)
CellText(cell) ==
    IF cell = <<>> THEN <<>> ELSE cell[1].text \o CellText(Tail(cell))

clean_value_text(text) ==
    ReplaceDoubled(RemoveChar(Strip(text), "\t"), "\n")

clean_value_list(cell) ==
    LET li_elements_raw == SelectSeq(cell, LAMBDA e : e.tag = "li")
    IN  [k \in DOMAIN li_elements_raw |-> clean_value_text(li_elements_raw[k].text)]

\* One iteration of the loop of clean_activity_list over st = [area_key,
\* activities, err]; activities is a function from section names to lists.
ActivityStep(st, element) ==
    IF st.err # "none" THEN st
    ELSE IF element.tag = "b"
    THEN IF clean_key_raises(element.text, None)
         THEN [st EXCEPT !.err = "TypeError"]
         ELSE LET k == clean_key(element.text, None)
              IN  [st EXCEPT !.area_key = k,
                             !.activities =
                                 [x \in DOMAIN st.activities \cup {k} |->
                                     IF x = k THEN <<>> ELSE st.activities[x]]]
    ELSE IF st.area_key \notin DOMAIN st.activities
         THEN [st EXCEPT !.err = "KeyError"]
         ELSE [st EXCEPT !.activities[st.area_key] =
                             Append(@, clean_value_text(element.text))]

RECURSIVE ActivityFold(_, _)
ActivityFold(st, elements) ==
    IF elements = <<>> THEN st
    ELSE ActivityFold(ActivityStep(st, elements[1]), Tail(elements))

\* Returns [err, activities]: err is "none" when the call returns activities.
clean_activity_list(cell) ==
    LET elements == SelectSeq(cell, LAMBDA e : e.tag \in {"b", "li"})
    IN  ActivityFold([area_key |-> <<>>, activities |-> <<>>, err |-> "none"],
                     elements)

(***************************************************************************)
(* The row loop of get_parse_org.                                           *)
(***************************************************************************)
\* The three shapes of a stored field value.
TextValue(s) == [kind |-> "text", v |-> s]

ListValue(items) == [kind |-> "list", v |-> items]

DictValue(sections) == [kind |-> "dict", v |-> sections]

\* organization[key] = val
Put(org, key, val) ==
    [x \in DOMAIN org \cup {key} |-> IF x = key THEN val ELSE org[x]]

\* Lines 122-123: the record starts with the id of the identity being processed.
NewOrganization(id) == Put(<<>>, K_org_id, TextValue(id))

\* Line 130: the contact type every table starts with.
TableStartContactType(ct) == HQ

\* Line 134: only rows of exactly two cells are read.
IsKeyValueRow(row) == row.ncells = 2

\* A faulty variant of NextContactType: the label never switches the contact type.
NextContactType_NoSwitch(ct, label) == ct

\* Lines 137-138: the contact type after looking at the raw label of a row.
NextContactType(ct, label) == IF label = L_Preferred THEN PREFERRED ELSE ct

\* A faulty variant of IsSuppressed: only the first faux header is recognised.
IsSuppressed_FirstOnly(key) == key = K_headquarters_address

\* Line 142: faux section headers are not stored.
IsSuppressed(key) == key \in faux_contact_headers

\* Lines 131-152: the log records one iteration of the row loop emits.  The
\* loop holds no call of logger, whatever the row.
RowLog(row) == <<>>

\* Lines 132-152: one iteration of the row loop on the record org under
\* contact type ct.  err is the exception the iteration raises ("none" when
\* it completes), key the canonical key of the row, stored whether the
\* iteration assigned organization[key].
ProcessRow(org, ct, row) ==
    IF ~IsKeyValueRow(row)
    THEN [organization |-> org, contact_type |-> ct, err |-> "none",
          key |-> <<>>, stored |-> FALSE]
    ELSE LET ct2 == NextContactType(ct, row.label)
             key == clean_key(row.label, ct2)
             act == clean_activity_list(row.cell)
         IN  IF IsSuppressed(key)
             THEN [organization |-> org, contact_type |-> ct2, err |-> "none",
                   key |-> key, stored |-> FALSE]
             ELSE IF key \in list_only_fields
             THEN [organization |-> Put(org, key, ListValue(clean_value_list(row.cell))),
                   contact_type |-> ct2, err |-> "none",
                   key |-> key, stored |-> TRUE]
             ELSE IF key = K_areas
             THEN IF act.err # "none"
                  THEN [organization |-> org, contact_type |-> ct2,
                        err |-> act.err, key |-> key, stored |-> FALSE]
                  ELSE [organization |-> Put(org, key, DictValue(act.activities)),
                        contact_type |-> ct2, err |-> "none",
                        key |-> key, stored |-> TRUE]
             ELSE [organization |-> Put(org, key,
                                        TextValue(clean_value_text(CellText(row.cell)))),
                   contact_type |-> ct2, err |-> "none",
                   key |-> key, stored |-> TRUE]

(***************************************************************************)
(* Bounds and inputs.                                                       *)
(***************************************************************************)
\* Longest bootstrap listing (number of profile links).
MaxIds == 3

\* Number of times the script is started against the same two databases.
MaxRuns == 2

\* Most rows in one detail document.
MaxRows == 2

\* icso.py line 163 iterates org_ids.all()[0:2].
SliceEnd == 2

\* config.py
long_wait_gap == 100

Id1 == <<"1">>

Id2 == <<"2">>

Ids == {Id1, Id2}

SeqsUpTo(S, n) == UNION {[1..k -> S] : k \in 0..n}

\* A listing long enough to hold an index at which the long break is due
\* (the same profile link, long_wait_gap + 1 times).
LongListing == [k \in 1..(long_wait_gap + 1) |-> Id1]

\* search_results.html: either it has no "#content table.result", or it
\* lists profile links (duplicates allowed) in document order.
ListFiles ==
    {[table |-> FALSE, ids |-> <<>>]}
        \cup {[table |-> TRUE, ids |-> ids] : ids \in SeqsUpTo(Ids, MaxIds)}
        \cup {[table |-> TRUE, ids |-> LongListing]}

\* What requests.get can come back with: a transport failure raises; any
\* HTTP status returns a response whose body may or may not hold a <form>.
Responses ==
    {[status |-> "transport", form |-> FALSE]}
        \cup [status : {"ok", "http_error"}, form : BOOLEAN]

NoResponse == [status |-> "none", form |-> FALSE]

Element(tag, text) == [tag |-> tag, text |-> text]

Row(ncells, label, cell) == [ncells |-> ncells, label |-> label, cell |-> cell]

NoRow == Row(0, <<>>, <<>>)

L_Headquarters ==
    <<"H", "e", "a", "d", "q", "u", "a", "r", "t", "e", "r", "s", " ",
      "a", "d", "d", "r", "e", "s", "s">>

\* Canonically the faux header, but not exactly the switching label.
L_PreferredPadded == <<" ">> \o L_Preferred

L_Address == <<"A", "d", "d", "r", "e", "s", "s", ":">>

L_Email == <<"E", "-", "m", "a", "i", "l">>

L_OrgId == <<"O", "r", "g", " ", "I", "D">>

L_Languages == <<"L", "a", "n", "g", "u", "a", "g", "e", "s">>

L_Areas ==
    <<"A", "r", "e", "a", "s", " ", "o", "f", " ", "e", "x", "p", "e", "r", "t",
      "i", "s", "e", " ", "&", " ", "F", "i", "e", "l", "d", "s", " ", "o", "f",
      " ", "a", "c", "t", "i", "v", "i", "t", "y">>

\* Value cells: plain text that cleans to the id "2", a list, a sectioned list.
C_Text == <<Element("text", <<" ", "2", "\t">>)>>

C_List == <<Element("li", <<"E", "n">>), Element("li", <<"F", "r">>)>>

C_Sections == <<Element("b", <<"H", "e", "a", "l", "t", "h">>),
                Element("li", <<"N", "u", "t", "r", "i", "t", "i", "o", "n">>)>>

\* The rows a detail document is drawn from when the crawl loop is checked.
CrawlRows ==
    { Row(2, L_OrgId, C_Text),
      Row(2, L_Areas, C_List) }

\* The rows a detail document is drawn from when the normaliser is checked.
ParseRows ==
    { Row(2, l, c) : l \in {L_Preferred, L_PreferredPadded, L_Headquarters,
                            L_Address, L_Email, L_OrgId, L_Languages, L_Areas},
                     c \in {C_Text, C_List, C_Sections} }
        \cup {Row(3, L_Preferred, C_Text)}

\* Longest label drawn from KeyAlphabet.
MaxLabelLen == 4

\* Letters (enough to spell "fax"), a space, an underscore, punctuation.
KeyAlphabet == {"F", "a", "x", "y", " ", "_", ":"}

L_Telephone ==
    <<"T", "e", "l", "e", "p", "h", "o", "n", "e", ":", " ", " ">>

L_FaxNumber ==
    <<"F", "a", "x", " ", "N", "u", "m", "b", "e", "r">>

L_YearFounded ==
    <<"Y", "e", "a", "r", " ", "F", "o", "u", "n", "d", "e", "d", " ",
      "Y", "Y", "Y", "Y">>

L_EmailPlain ==
    <<"E", "m", "a", "i", "l">>

L_TwoSuffixes ==
    <<"F", "o", "u", "n", "d", "e", "d", " ", "y", "y", "y", "y", " ",
      "y", "y", "y", "y">>

\* The raw labels clean_key is checked on.
KeyLabels ==
    SeqsUpTo(KeyAlphabet, MaxLabelLen)
        \cup {L_Telephone, L_FaxNumber, L_YearFounded, L_EmailPlain, L_TwoSuffixes}

KeyRows == {Row(2, l, C_Text) : l \in KeyLabels}

\* Most elements in an expertise cell drawn from ActivityElements.
MaxElems == 3

T_Health ==
    <<"H", "e", "a", "l", "t", "h">>

T_Education ==
    <<"E", "d", "u", "c", "a", "t", "i", "o", "n">>

T_Fax ==
    <<"F", "a", "x">>

T_Nutrition ==
    <<"N", "u", "t", "r", "i", "t", "i", "o", "n">>

T_Sanitation ==
    <<"S", "a", "n", "i", "t", "a", "t", "i", "o", "n">>

T_Literacy ==
    <<"L", "i", "t", "e", "r", "a", "c", "y">>

\* Headings (one of them canonically a contact key), list items and other
\* content of an expertise cell.
ActivityElements ==
    { Element("b", T_Health), Element("b", T_Education), Element("b", T_Fax),
      Element("li", T_Nutrition), Element("li", T_Literacy),
      Element("text", T_Health) }

\* Health (Nutrition, Sanitation), Education (Literacy)
C_Example ==
    << Element("b", T_Health), Element("li", T_Nutrition),
       Element("li", T_Sanitation), Element("b", T_Education),
       Element("li", T_Literacy) >>

ActivityCells == SeqsUpTo(ActivityElements, MaxElems) \cup {C_Example}

ActivityRows == {Row(2, L_Areas, c) : c \in ActivityCells}

(***************************************************************************)
(* State.                                                                  *)
(***************************************************************************)
VARIABLES
    list_file,      \* content of config.LIST_FILE
    org_ids,        \* TinyDB(DB_FILE_ORG_LIST): the org_id of each document, in order
    orgs_full,      \* TinyDB(DB_FILE_ORG): the stored organization records, in order
    runs,           \* how many times the script has been started
    pc,             \* where the running script is, or how it ended
    error,          \* the uncaught exception of a crashed run
    i,              \* loop index of __main__ (zero-based)
    response,       \* r of get_parse_org
    organization,   \* organization of get_parse_org
    contact_type,   \* contact_type of get_parse_org
    nrows,          \* rows of the current document read so far
    table_rows,     \* rows of the current table read so far
    events,         \* this run's sleeps, fetches, inserts and skips, in order
    last,           \* the row read last, with what the iteration did
    pref_doc,       \* a two-cell "Preferred mailing address" row was read in this document
    pref_table      \* ... in this table

vars == <<list_file, org_ids, orgs_full, runs, pc, error, i, response,
          organization, contact_type, nrows, table_rows, events, last,
          pref_doc, pref_table>>

store == <<list_file, org_ids, orgs_full>>

locals == <<response, organization, contact_type, nrows, table_rows, last,
            pref_doc, pref_table>>

\* A local variable that has not been assigned.
Unbound == <<"unbound">>

NoLast == [row |-> NoRow, key |-> <<>>, stored |-> FALSE,
           pref_doc |-> FALSE, pref_table |-> FALSE,
           overwrote |-> FALSE, log |-> <<>>]

Event(ev, idx, status) == [ev |-> ev, i |-> idx, status |-> status]

Min(a, b) == IF a < b THEN a ELSE b

\* Line 163: org_ids.all()[0:2]
Cursor == SubSeq(org_ids, 1, Min(SliceEnd, Len(org_ids)))

\* A faulty variant of HasProfile: the completion check never finds a record.
HasProfile_NeverFound(id) == FALSE

\* Line 172: orgs_full.search(q.org_id == id) is not empty
HasProfile(id) ==
    \E k \in DOMAIN orgs_full :
        /\ K_org_id \in DOMAIN orgs_full[k]
        /\ orgs_full[k][K_org_id] = TextValue(id)

\* A faulty variant of NeedsWait: the pause starts one index too late.
NeedsWait_OffByOne(idx) == idx > 1

\* Line 107: the per-request pause is taken for every index but the first.
NeedsWait(idx) == idx > 0

\* Line 165: the long break
NeedsLongWait(idx) == idx > 0 /\ idx % long_wait_gap = 0

Stopped == pc \in {"idle", "done", "crashed", "interrupted"}

Init ==
    /\ list_file \in ListFiles
    /\ org_ids = <<>>
    /\ orgs_full = <<>>
    /\ runs = 0
    /\ pc = "idle"
    /\ error = "none"
    /\ i = 0
    /\ response = NoResponse
    /\ organization = <<>>
    /\ contact_type = Unbound
    /\ nrows = 0
    /\ table_rows = 0
    /\ events = <<>>
    /\ last = NoLast
    /\ pref_doc = FALSE
    /\ pref_table = FALSE

(***************************************************************************)
(* __main__                                                                 *)
(***************************************************************************)
\* What is left of the locals of get_parse_org once it is not running.
ClearLocals ==
    /\ response' = NoResponse
    /\ organization' = <<>>
    /\ contact_type' = Unbound
    /\ nrows' = 0
    /\ table_rows' = 0

\* The history of the document read last is forgotten.
ClearHistory ==
    /\ last' = NoLast
    /\ pref_doc' = FALSE
    /\ pref_table' = FALSE

\* A faulty variant of NeedsSeeding: the listing is extracted in every run.
NeedsSeeding_Always == TRUE

\* Line 158: the listing is extracted only into an empty identity collection.
NeedsSeeding == Len(org_ids) = 0

\* A faulty variant of HasResultTable: a listing without the table is read
\* as a listing without links.
HasResultTable_Ignored(file) == TRUE

\* Line 49: select('#content table.result')[0] finds the table.
HasResultTable(file) == file.table

\* The script is started (again): module-level state is fresh, the two
\* databases are what the earlier runs left.  Line 158.
StartRun ==
    /\ Stopped
    /\ runs < MaxRuns
    /\ runs' = runs + 1
    /\ pc' = IF NeedsSeeding THEN "seed" ELSE "loop"
    /\ error' = "none"
    /\ i' = 0
    /\ events' = <<>>
    /\ ClearLocals
    /\ ClearHistory
    /\ UNCHANGED store

\* generate_list: select(...)[0] raises IndexError when the table is absent;
\* otherwise every profile link is inserted, in order.
GenerateList ==
    /\ pc = "seed"
    /\ IF HasResultTable(list_file)
       THEN /\ org_ids' = org_ids \o list_file.ids
            /\ pc' = "loop"
            /\ error' = "none"
       ELSE /\ org_ids' = org_ids
            /\ pc' = "crashed"
            /\ error' = "IndexError"
    /\ UNCHANGED <<list_file, orgs_full, runs, i, events, locals>>

\* Lines 163-169: the next identity of the slice, after the long break if due.
LoopTop ==
    /\ pc = "loop"
    /\ i < Len(Cursor)
    /\ events' = IF NeedsLongWait(i)
                 THEN Append(events, Event("long_sleep", i, "-"))
                 ELSE events
    /\ pc' = "check"
    /\ ClearHistory
    /\ UNCHANGED <<store, runs, error, i, response, organization,
                   contact_type, nrows, table_rows>>

\* Lines 172-175: no record with this org_id yet: call get_parse_org.
CheckGet ==
    /\ pc = "check"
    /\ ~HasProfile(Cursor[i + 1])
    /\ pc' = "wait"
    /\ events' = Append(events, Event("getting", i, "-"))
    /\ UNCHANGED <<store, runs, error, i, locals>>

\* Lines 176-178: already stored: log and go on.
CheckSkip ==
    /\ pc = "check"
    /\ HasProfile(Cursor[i + 1])
    /\ pc' = "loop"
    /\ i' = i + 1
    /\ events' = Append(events, Event("skip", i, "-"))
    /\ UNCHANGED <<store, runs, error, locals>>

\* Line 180
AllDone ==
    /\ pc = "loop"
    /\ i >= Len(Cursor)
    /\ pc' = "done"
    /\ ClearHistory
    /\ UNCHANGED <<store, runs, error, i, events, response, organization,
                   contact_type, nrows, table_rows>>

\* The process is terminated from outside, at any point of a run: its memory
\* is gone, the two databases stay.
Interrupt ==
    /\ ~Stopped
    /\ pc' = "interrupted"
    /\ i' = 0
    /\ events' = <<>>
    /\ ClearLocals
    /\ ClearHistory
    /\ UNCHANGED <<store, runs, error>>

(***************************************************************************)
(* get_parse_org                                                            *)
(***************************************************************************)
\* Lines 107-110
Wait ==
    /\ pc = "wait"
    /\ events' = IF NeedsWait(i)
                 THEN Append(events, Event("sleep", i, "-"))
                 ELSE events
    /\ pc' = "fetch"
    /\ UNCHANGED <<store, runs, error, i, locals>>

\* Lines 112-115: requests.get; a transport failure raises out of the script.
Fetch ==
    /\ pc = "fetch"
    /\ \E r \in Responses :
        /\ response' = r
        /\ events' = Append(events, Event("fetch", i, r.status))
        /\ IF r.status = "transport"
           THEN pc' = "crashed" /\ error' = "ConnectionError"
           ELSE pc' = "form" /\ error' = error
    /\ UNCHANGED <<store, runs, i, organization, contact_type, nrows,
                   table_rows, last, pref_doc, pref_table>>

\* Lines 116-123: raw[0] raises IndexError when the body holds no form;
\* the status of the response is not looked at.
SelectForm ==
    /\ pc = "form"
    /\ IF response.form
       THEN /\ organization' = NewOrganization(Cursor[i + 1])
            /\ pc' = "tables"
            /\ error' = error
       ELSE /\ organization' = organization
            /\ pc' = "crashed"
            /\ error' = "IndexError"
    /\ contact_type' = Unbound
    /\ nrows' = 0
    /\ table_rows' = 0
    /\ last' = NoLast
    /\ pref_doc' = FALSE
    /\ pref_table' = FALSE
    /\ UNCHANGED <<store, runs, i, events, response>>

\* Lines 127-130: the next table of the form begins.
BeginTable ==
    /\ pc = "tables"
    /\ pc' = "rows"
    /\ contact_type' = TableStartContactType(contact_type)
    /\ table_rows' = 0
    /\ pref_table' = FALSE
    /\ UNCHANGED <<store, runs, error, i, events, response, organization,
                   nrows, last, pref_doc>>

\* Lines 131-152: the next row of the table.
ParseRow(row) ==
    /\ pc = "rows"
    /\ nrows < MaxRows
    /\ LET res == ProcessRow(organization, contact_type, row)
           sw  == IsKeyValueRow(row) /\ row.label = L_Preferred
       IN  /\ organization' = res.organization
           /\ contact_type' = res.contact_type
           /\ last' = [row |-> row, key |-> res.key, stored |-> res.stored,
                       pref_doc |-> pref_doc, pref_table |-> pref_table,
                       overwrote |-> (res.stored
                                        /\ res.key \in DOMAIN organization \ {K_org_id}),
                       log |-> RowLog(row)]
           /\ pref_doc' = (pref_doc \/ sw)
           /\ pref_table' = (pref_table \/ sw)
           /\ IF res.err = "none"
              THEN pc' = "rows" /\ error' = error
              ELSE pc' = "crashed" /\ error' = res.err
    /\ nrows' = nrows + 1
    /\ table_rows' = table_rows + 1
    /\ UNCHANGED <<store, runs, i, events, response>>

\* The table has no more rows.
EndTable ==
    /\ pc = "rows"
    /\ pc' = "tables"
    /\ UNCHANGED <<store, runs, error, i, events, locals>>

\* Line 154, and the return to the loop of __main__.
InsertProfile ==
    /\ pc = "tables"
    /\ orgs_full' = Append(orgs_full, organization)
    /\ events' = Append(events, Event("insert", i, "-"))
    /\ pc' = "loop"
    /\ i' = i + 1
    /\ ClearLocals
    /\ UNCHANGED <<list_file, org_ids, runs, error, last, pref_doc, pref_table>>

(***************************************************************************)
(* Specifications.                                                          *)
(***************************************************************************)
CrawlParseRow == \E row \in CrawlRows : ParseRow(row)

Next ==
    \/ StartRun
    \/ GenerateList
    \/ LoopTop
    \/ CheckGet
    \/ CheckSkip
    \/ AllDone
    \/ Interrupt
    \/ Wait
    \/ Fetch
    \/ SelectForm
    \/ BeginTable
    \/ CrawlParseRow
    \/ EndTable
    \/ InsertProfile

\* The crawl: repeated runs of the script against the same two databases.
Spec == Init /\ [][Next]_vars

\* The normaliser: get_parse_org on the first identity, from the point where
\* a response with a form has come back, over every document built from
\* ParseRows.
InitParse ==
    /\ list_file = [table |-> TRUE, ids |-> <<Id1>>]
    /\ org_ids = <<Id1>>
    /\ orgs_full = <<>>
    /\ runs = 1
    /\ pc = "form"
    /\ error = "none"
    /\ i = 0
    /\ response \in {r \in Responses : r.status = "ok" /\ r.form}
    /\ organization = <<>>
    /\ contact_type = Unbound
    /\ nrows = 0
    /\ table_rows = 0
    /\ events = <<Event("getting", 0, "-"), Event("fetch", 0, "ok")>>
    /\ last = NoLast
    /\ pref_doc = FALSE
    /\ pref_table = FALSE

NormParseRow == \E row \in ParseRows : ParseRow(row)

NextParse ==
    \/ SelectForm
    \/ BeginTable
    \/ NormParseRow
    \/ EndTable
    \/ InsertProfile

SpecParse == InitParse /\ [][NextParse]_vars

(***************************************************************************)
(* Properties of the crawl (specification Spec).                            *)
(***************************************************************************)
\* The records of the profile collection whose org_id field is id.
RecordsOf(id) ==
    {k \in DOMAIN orgs_full :
        K_org_id \in DOMAIN orgs_full[k] /\ orgs_full[k][K_org_id].v = id}

EventsAt(ev, idx) ==
    {k \in DOMAIN events : events[k].ev = ev /\ events[k].i = idx}

\* C1: after any number of runs, finished or interrupted anywhere, the
\* profile collection holds at most one record per entity id.
C1_AtMostOneRecordPerId ==
    \A id \in Ids : Cardinality(RecordsOf(id)) <= 1

\* C2: when the completion check finds a record for the identity at the
\* cursor, the step of the script only logs the skip and advances the cursor:
\* no pause, no fetch, no insert, and both collections are left as they are.
C2_SkipHasNoOtherEffect ==
    [][(pc = "check" /\ RecordsOf(Cursor[i + 1]) # {} /\ pc' # "interrupted")
          => /\ pc' = "loop"
             /\ i' = i + 1
             /\ orgs_full' = orgs_full
             /\ org_ids' = org_ids
             /\ events' = Append(events, Event("skip", i, "-"))]_vars

\* C2 witness: a resumed run skipped the first identity and went on.
C2_Witness ==
    /\ runs = 2
    /\ EventsAt("skip", 0) # {}
    /\ EventsAt("fetch", 0) = {}
    /\ pc = "check"

\* C3: when a run reports "All done!" and every identity the loop visited has
\* its record, every identity of the identity collection has a record.
C3_AllIdentitiesStoredAtDone ==
    (pc = "done" /\ \A k \in DOMAIN Cursor : RecordsOf(Cursor[k]) # {})
        => \A k \in DOMAIN org_ids : RecordsOf(org_ids[k]) # {}

\* C4: once the insert for the identity at an index has returned, the profile
\* collection holds a record under that identity's id.
C4_InsertedRecordKeyedById ==
    \A k \in DOMAIN events :
        events[k].ev = "insert" => RecordsOf(Cursor[events[k].i + 1]) # {}

\* C5: no per-request pause precedes the fetch at index 0; the fetch at an
\* index > 0 is preceded by exactly one per-request pause of that index.
C5_PauseBeforeFetch ==
    \A k \in DOMAIN events :
        events[k].ev = "fetch"
            => IF events[k].i = 0
               THEN EventsAt("sleep", 0) = {}
               ELSE /\ Cardinality(EventsAt("sleep", events[k].i)) = 1
                    /\ \A j \in EventsAt("sleep", events[k].i) : j < k

\* C5 witness: a resumed run whose first fetch is at index 1, after its pause.
C5_Witness ==
    /\ runs = 2
    /\ EventsAt("skip", 0) # {}
    /\ EventsAt("sleep", 1) # {}
    /\ EventsAt("fetch", 1) # {}

\* C8: a normalisation anomaly (here: the KeyError of a list item before any
\* heading) does not end the run while later identities of the cursor are
\* still without a record.
C8_AnomalyDoesNotAbortRun ==
    ~(/\ pc = "crashed"
      /\ error = "KeyError"
      /\ \E k \in DOMAIN Cursor : k > i + 1 /\ RecordsOf(Cursor[k]) = {})

\* C10: a record is inserted for the identity at an index only after a fetch
\* for that index that came back successful.
C10_InsertOnlyAfterSuccessfulFetch ==
    \A k \in DOMAIN events :
        events[k].ev = "insert"
            => \E j \in 1..(k - 1) :
                   /\ events[j].ev = "fetch"
                   /\ events[j].i = events[k].i
                   /\ events[j].status = "ok"

(***************************************************************************)
(* Properties of the normaliser (specification SpecParse).                  *)
(***************************************************************************)
K_hq_address == <<"h", "q", "_", "a", "d", "d", "r", "e", "s", "s">>

K_hq_email == <<"h", "q", "_", "e", "m", "a", "i", "l">>

K_preferred_address ==
    <<"p", "r", "e", "f", "e", "r", "r", "e", "d", "_",
      "a", "d", "d", "r", "e", "s", "s">>

K_preferred_email ==
    <<"p", "r", "e", "f", "e", "r", "r", "e", "d", "_", "e", "m", "a", "i", "l">>

\* The row read last is a two-cell row whose canonical key is a contact key.
LastIsContactRow ==
    last.row.ncells = 2 /\ last.row.label \in {L_Address, L_Email}

LastStoredUnder(address_key, email_key) ==
    /\ last.stored
    /\ last.key = IF last.row.label = L_Address THEN address_key ELSE email_key
    /\ pc \in {"rows", "tables"} => last.key \in DOMAIN organization

\* C6 as stated: once a two-cell row labelled exactly "Preferred mailing
\* address" has been read in a document, every later contact row of that
\* document is stored under the preferred_ prefix, also in a later table.
C6_PreferredForRestOfDocument ==
    (LastIsContactRow /\ last.pref_doc)
        => LastStoredUnder(K_preferred_address, K_preferred_email)

\* C6 as amended: once such a row has been read in a table, every later
\* contact row of that table is stored under the preferred_ prefix; every
\* table (so every document) starts in the hq context, and a contact row with
\* no such row before it in its table is stored under the hq_ prefix.
C6_PreferredForRestOfTable ==
    /\ (LastIsContactRow /\ last.pref_table)
           => LastStoredUnder(K_preferred_address, K_preferred_email)
    /\ (LastIsContactRow /\ ~last.pref_table)
           => LastStoredUnder(K_hq_address, K_hq_email)
    /\ (pc = "rows" /\ table_rows = 0) => contact_type = HQ

\* C6 witness: a contact row read after the switching row of its table.
C6_Witness ==
    /\ last.pref_table
    /\ last.row = Row(2, L_Address, C_Text)
    /\ K_preferred_address \in DOMAIN organization
    /\ pc = "rows"

\* C7: neither faux section header is ever a key of the record being built
\* or of a stored record, and a two-cell row whose canonical key is one of
\* them assigns nothing, whatever its value cell holds.
C7_FauxHeadersNeverStored ==
    /\ DOMAIN organization
           \cap {K_headquarters_address, K_preferred_mailing_address} = {}
    /\ \A k \in DOMAIN orgs_full :
           DOMAIN orgs_full[k]
               \cap {K_headquarters_address, K_preferred_mailing_address} = {}
    /\ (/\ last.row.ncells = 2
        /\ last.row.label \in {L_Headquarters, L_Preferred, L_PreferredPadded})
           => ~last.stored

\* C7 witness: a document whose last row is a faux header with a list in its
\* value cell has been stored.
C7_Witness ==
    /\ Len(orgs_full) = 1
    /\ last.row \in {Row(2, L_Preferred, C_List), Row(2, L_Headquarters, C_List)}
    /\ DOMAIN orgs_full[1] = {K_org_id}

\* The value cell of the row read last starts, among its headings and list
\* items, with a list item.
LastIsItemBeforeHeading ==
    LET elements == SelectSeq(last.row.cell, LAMBDA e : e.tag \in {"b", "li"})
    IN  /\ last.row.ncells = 2
        /\ last.row.label = L_Areas
        /\ elements # <<>>
        /\ elements[1].tag = "li"

\* C9: a list item before any heading is placed in the section named by the
\* empty string, and the parse of the expertise field does not fail.
C9_ItemBeforeHeadingInEmptySection ==
    LastIsItemBeforeHeading
        => /\ pc # "crashed"
           /\ last.stored
           /\ K_areas \in DOMAIN organization
           /\ <<>> \in DOMAIN organization[K_areas].v

(***************************************************************************)
(* Properties of seeding (specification Spec).                              *)
(***************************************************************************)
\* C11: when the bootstrap document lacks the results table, every run ends
\* in Seeding: no fetch is issued, no identity and no profile is inserted,
\* and "All done!" is not reported.
C11_MissingTableAbortsBeforeAnyFetch ==
    ~list_file.table
        => /\ org_ids = <<>>
           /\ orgs_full = <<>>
           /\ events = <<>>
           /\ pc \in {"idle", "seed", "crashed", "interrupted"}
           /\ pc = "crashed" => error = "IndexError"

\* C11 witness: the second run against the table-less listing has crashed too.
C11_Witness ==
    /\ ~list_file.table
    /\ runs = 2
    /\ pc = "crashed"

\* C12: the identity collection changes only in Seeding, and Seeding is
\* entered only with an empty identity collection: a run that starts with a
\* non-empty collection leaves it as it is.
C12_IdentitiesOnlySeededWhenEmpty ==
    [][/\ org_ids' # org_ids => (pc = "seed" /\ org_ids = <<>>)
       /\ pc' = "seed" => org_ids = <<>>
       /\ org_ids # <<>> => org_ids' = org_ids]_vars

\* C12 witness: a second run over a non-empty identity collection is done.
C12_Witness ==
    /\ runs = 2
    /\ org_ids # <<>>
    /\ org_ids = list_file.ids
    /\ pc = "done"

(***************************************************************************)
(* Logging of the row loop (specification SpecParse).                       *)
(***************************************************************************)
\* The content of a row does not end up in the record: the row read last is a
\* suppressed faux header or has a cell count other than two, or it has
\* overwritten the field an earlier row of the document stored.
LastDropsContent ==
    /\ last.row # NoRow
    /\ pc # "crashed"
    /\ \/ last.row.ncells # 2
       \/ last.row.ncells = 2 /\ ~last.stored
       \/ last.overwrote

\* C13: whenever content of a row is dropped, the iteration that drops it
\* emits a log record.
C13_DroppedRowIsLogged ==
    LastDropsContent => last.log # <<>>

(***************************************************************************)
(* clean_key on its own (specification SpecKey): the row loop reads one     *)
(* more two-cell row, whose label is drawn from KeyLabels, in either        *)
(* contact type.                                                            *)
(***************************************************************************)
InitKey ==
    /\ list_file = [table |-> TRUE, ids |-> <<Id1>>]
    /\ org_ids = <<Id1>>
    /\ orgs_full = <<>>
    /\ runs = 1
    /\ pc = "rows"
    /\ error = "none"
    /\ i = 0
    /\ response \in {r \in Responses : r.status = "ok" /\ r.form}
    /\ organization = NewOrganization(Id1)
    /\ contact_type \in {HQ, PREFERRED}
    /\ nrows = MaxRows - 1
    /\ table_rows = MaxRows - 1
    /\ events = <<Event("getting", 0, "-"), Event("fetch", 0, "ok")>>
    /\ last = NoLast
    /\ pref_doc = (contact_type = PREFERRED)
    /\ pref_table = (contact_type = PREFERRED)

\* The guard of ParseRow is repeated in front of the choice of the row.
KeyParseRow ==
    /\ pc = "rows"
    /\ nrows < MaxRows
    /\ \E row \in KeyRows : ParseRow(row)

NextKey == KeyParseRow

SpecKey == InitKey /\ [][NextKey]_vars

K_telephone ==
    <<"t", "e", "l", "e", "p", "h", "o", "n", "e">>

K_fax_number ==
    <<"f", "a", "x", "_", "n", "u", "m", "b", "e", "r">>

K_year_founded ==
    <<"y", "e", "a", "r", "_", "f", "o", "u", "n", "d", "e", "d">>

\* The steps of the key canonicalisation, stated on their own.
\* Step 1: lowercase, strip surrounding whitespace, internal spaces to "_".
RefStep1(label) ==
    LET inner == {k \in DOMAIN label : label[k] \notin {" ", "\t", "\n"}}
        first == CHOOSE k \in inner : \A j \in inner : k <= j
        final == CHOOSE k \in inner : \A j \in inner : j <= k
    IN  IF inner = {} THEN <<>>
        ELSE [k \in 1..(final - first + 1) |->
                 IF label[first + k - 1] = " " THEN "_"
                 ELSE LowerChar(label[first + k - 1])]

\* Step 2: remove every character that is not a letter, a digit or "_".
RefStep2(s) ==
    SelectSeq(s, LAMBDA c : \/ c \in DigitChars \cup {"_"}
                            \/ \E k \in DOMAIN LowerChars : LowerChars[k] = c
                            \/ \E k \in DOMAIN UpperChars : UpperChars[k] = c)

\* Step 3: every doubled "_" becomes a single "_", pair by pair from the
\* left: a run of n underscores is left with (n + 1) \div 2 of them.
RECURSIVE RefStep3(_, _)
RefStep3(s, run) ==
    IF s = <<>> THEN [k \in 1..((run + 1) \div 2) |-> "_"]
    ELSE IF s[1] = "_" THEN RefStep3(Tail(s), run + 1)
    ELSE [k \in 1..((run + 1) \div 2) |-> "_"] \o <<s[1]>> \o RefStep3(Tail(s), 0)

\* Step 4: strip one trailing "_" or one trailing "_yyyy".
RefStep4(s) ==
    LET n == Len(s)
    IN  IF n >= 1 /\ s[n] = "_" THEN SubSeq(s, 1, n - 1)
        ELSE IF n >= 5 /\ SubSeq(s, n - 4, n) = <<"_", "y", "y", "y", "y">>
             THEN SubSeq(s, 1, n - 5)
             ELSE s

RefCanonical(label) == RefStep4(RefStep3(RefStep2(RefStep1(label)), 0))

\* Step 5: a contact key gets the contact type and "_" in front.
RefKey(label, ct) ==
    IF RefCanonical(label) \in {K_address, K_phone, K_fax, K_email}
    THEN ct \o <<"_">> \o RefCanonical(label)
    ELSE RefCanonical(label)

\* The row loop has read a row of KeyRows: last.key is clean_key of its label
\* under contact_type.
KeyApplied == nrows = MaxRows /\ last.row.ncells = 2

HasDoubledUnderscore(s) ==
    \E k \in 1..(Len(s) - 1) : s[k] = "_" /\ s[k + 1] = "_"

\* C18: the key clean_key returns has no two consecutive underscores and
\* ends neither with "_" nor with "_yyyy".
C18_KeyHasNoDoubledOrTrailingUnderscore ==
    KeyApplied
        => /\ ~HasDoubledUnderscore(last.key)
           /\ ~EndsWith(last.key, <<"_">>)
           /\ ~EndsWith(last.key, <<"_", "y", "y", "y", "y">>)

(***************************************************************************)
(* The long break (specification Spec).                                     *)
(***************************************************************************)
\* The events of index idx that the long break has to precede.
EventsOfIndex(idx) ==
    {k \in DOMAIN events :
        events[k].i = idx /\ events[k].ev \in {"getting", "skip", "sleep", "fetch"}}

InitActivity ==
    /\ list_file = [table |-> TRUE, ids |-> <<Id1>>]
    /\ org_ids = <<Id1>>
    /\ orgs_full = <<>>
    /\ runs = 1
    /\ pc = "rows"
    /\ error = "none"
    /\ i = 0
    /\ response \in {r \in Responses : r.status = "ok" /\ r.form}
    /\ organization = NewOrganization(Id1)
    /\ contact_type = HQ
    /\ nrows = MaxRows - 1
    /\ table_rows = MaxRows - 1
    /\ events = <<Event("getting", 0, "-"), Event("fetch", 0, "ok")>>
    /\ last = NoLast
    /\ pref_doc = FALSE
    /\ pref_table = FALSE

\* The guard of ParseRow is repeated in front of the choice of the row.
ActivityParseRow ==
    /\ pc = "rows"
    /\ nrows < MaxRows
    /\ \E row \in ActivityRows : ParseRow(row)

NextActivity == ActivityParseRow

SpecActivity == InitActivity /\ [][NextActivity]_vars

K_health == <<"h", "e", "a", "l", "t", "h">>

K_education == <<"e", "d", "u", "c", "a", "t", "i", "o", "n">>

\* The headings and list items of the value cell of the row read last.
LastElements == SelectSeq(last.row.cell, LAMBDA e : e.tag \in {"b", "li"})

LastHeadings == {k \in DOMAIN LastElements : LastElements[k].tag = "b"}

\* The row loop has read an expertise row whose cell starts with a heading.
ActivityApplied ==
    /\ nrows = MaxRows
    /\ last.row.ncells = 2
    /\ last.row.label = L_Areas
    /\ LastElements # <<>>
    /\ LastElements[1].tag = "b"

SectionName(k) == RefCanonical(LastElements[k].text)

\* The list items between the last heading named name and the heading after.
SectionItems(name) ==
    LET opened == CHOOSE k \in LastHeadings :
                      /\ SectionName(k) = name
                      /\ \A j \in LastHeadings : SectionName(j) = name => j <= k
        later  == {j \in LastHeadings : j > opened}
        closed == IF later = {} THEN Len(LastElements) + 1
                  ELSE CHOOSE j \in later : \A m \in later : j <= m
    IN  [n \in 1..(closed - opened - 1) |-> LastElements[opened + n].text]

\* The mapping the claim describes for the cell of the row read last.
ExpectedSections ==
    [name \in {SectionName(k) : k \in LastHeadings} |-> SectionItems(name)]

\* The parse of the row read last returned this mapping.
LastParsedTo(sections) ==
    /\ pc # "crashed"
    /\ last.stored
    /\ K_areas \in DOMAIN organization
    /\ organization[K_areas] = DictValue(sections)

\* C16: for every cell that starts with a heading the parse returns the
\* mapping in which each list item is appended, in order, to the section of
\* the most recent heading, a repeated heading emptying its section; the
\* example cell gives {health: [Nutrition, Sanitation], education: [Literacy]}.
C16_SectionsFollowHeadings ==
    ActivityApplied
        => /\ LastParsedTo(ExpectedSections)
           /\ last.row.cell = C_Example
                  => LastParsedTo((K_health :> <<T_Nutrition, T_Sanitation>>)
                                      @@ (K_education :> <<T_Literacy>>))

\* C16 without its failure: the same statement for the cells none of whose
\* headings is canonically a contact key.
C16_HoldsWithoutContactHeadings ==
    (ActivityApplied
         /\ \A k \in LastHeadings :
                SectionName(k) \notin {K_address, K_phone, K_fax, K_email})
        => /\ LastParsedTo(ExpectedSections)
           /\ last.row.cell = C_Example
                  => LastParsedTo((K_health :> <<T_Nutrition, T_Sanitation>>)
                                      @@ (K_education :> <<T_Literacy>>))

\* C17: every heading opens a section named by its own canonical text, also
\* a heading whose canonical text is address, phone, fax or email, and the
\* parse completes.
C17_EveryHeadingNamesItsSection ==
    ActivityApplied
        => /\ pc # "crashed"
           /\ last.stored
           /\ K_areas \in DOMAIN organization
           /\ \A k \in LastHeadings :
                  SectionName(k) \in DOMAIN organization[K_areas].v

====
